---- MODULE Spec2Model ----
(***************************************************************************)
(* A model of claude-code-router's request pipeline:                       *)
(*   - formatRequest (source -> target message translation, the tool       *)
(*     pairing validator validateOpenAIToolCalls, cache annotation),       *)
(*   - the POST /v1/messages handler (provider lookup, upstream call,      *)
(*     hand-over to streamOpenAIResponse),                                 *)
(*   - the streaming SSE decoder (the async generator of the handler).     *)
(*                                                                         *)
(* Strings are sequences of characters (one-character TLA+ strings), so    *)
(* that trim, split, startsWith, slice and JSON.parse are computed.        *)
(***************************************************************************)
EXTENDS Integers, Sequences, FiniteSets, TLC

VARIABLES
    \* ---- formatRequest as a pipeline of pure functions (TransSpec)
    messages,                 \* req.body.messages (source format)
    system,                   \* req.body.system
    tstage,                   \* position in the pipeline
    openAIMessages,           \* result of the flatMap
    validatedOpenAIMessages,  \* result of validateOpenAIToolCalls
    dataMessages              \* data.messages after cache annotation

trVars == <<messages, system, tstage, openAIMessages, validatedOpenAIMessages,
            dataMessages>>

VARIABLES
    \* ---- the server: provider registry and the requests in flight (Spec)
    Providers,                \* the Map of registered providers, by name
    req                       \* per request: inputs, position, effects so far

reqVars == <<Providers, req>>

VARIABLES
    \* ---- one run of the streaming decoder (DecSpec)
    sent,                     \* the lines the backend sends, as text
    source,                   \* response.body: the bytes of those lines
    pos,                      \* bytes handed out by reader.read() so far
    reader,                   \* "none", "locked" or "released"
    pending,                  \* bytes the TextDecoder holds back
    buffer,                   \* the generator's buffer
    lines,                    \* lines of the current for loop not yet visited
    atEnd,                    \* the loop runs in the done branch
    yielded,                  \* the events yielded so far
    dpc,                      \* where the generator stands
    cut                       \* history: some read ended inside a line

decVars ==
    <<sent, source, pos, reader, pending, buffer, lines, atEnd, yielded, dpc, cut>>

VARIABLES
    \* ---- one call of validateOpenAIToolCalls on a target list (ValSpec)
    vmessages,                \* the messages argument
    vi,                       \* the loop index i (from 1)
    validatedMessages,        \* the result under construction
    revalidatedMessages,      \* the result of a second call, on the first result
    vstage                    \* where the call stands

valVars == <<vmessages, vi, validatedMessages, revalidatedMessages, vstage>>

VARIABLES
    \* ---- the provider client cache and its lookups (CacheSpec)
    providerCache,            \* the entries, most recently used first
    now,                      \* the clock, in hours
    constructed,              \* the number of OpenAI clients constructed so far
    lookups,                  \* the number of getProviderInstance calls so far
    lastUse,                  \* history: per cache key, the call that last used it
    last                      \* the latest call: its caller, argument and outcome

cacheVars == <<providerCache, now, constructed, lookups, lastUse, last>>

vars == <<trVars, reqVars, decVars, valVars, cacheVars>>

\* what the steps of one part of the model leave alone
notTr == <<reqVars, decVars, valVars, cacheVars>>
notReq == <<trVars, decVars, valVars, cacheVars>>
notDec == <<trVars, reqVars, valVars, cacheVars>>
notVal == <<trVars, reqVars, decVars, cacheVars>>
notCache == <<trVars, decVars, valVars>>

-----------------------------------------------------------------------------
(* Bounds of the model *)

MaxMsgs == 2      \* source messages per request
MaxBlocks == 3    \* content blocks per request, over all its messages
NumRequests == 2  \* concurrent inbound requests
MaxLines == 2     \* lines of a streamed response body
MaxTarget == 4    \* target messages handed to the validator directly
MaxLookups == 3   \* getProviderInstance calls after the cache was warmed
MaxClock == 4     \* the clock stops here (hours)

(* Constants of the program *)

max == 10         \* providerCache: max
ttl == 2          \* providerCache: ttl, 2 * 60 * 60 * 1000 ms, in hours

-----------------------------------------------------------------------------
(* Strings *)

Newline == "\n"
Backslash == "\\"

\* What String.prototype.trim strips (the characters the model uses).
WhiteSpace == {" ", Newline, "\r", "\t"}

RECURSIVE TrimStart(_)
TrimStart(s) ==
    IF s # <<>> /\ Head(s) \in WhiteSpace THEN TrimStart(Tail(s)) ELSE s

RECURSIVE TrimEnd(_)
TrimEnd(s) ==
    IF s # <<>> /\ s[Len(s)] \in WhiteSpace
    THEN TrimEnd(SubSeq(s, 1, Len(s) - 1))
    ELSE s

Trim(s) == TrimEnd(TrimStart(s))

StartsWith(s, p) == Len(s) >= Len(p) /\ SubSeq(s, 1, Len(p)) = p

\* s.slice(n)
Slice(s, n) == SubSeq(s, n + 1, Len(s))

-----------------------------------------------------------------------------
(* Source format (the inbound request body) *)

Sep == <<Backslash, "n">>   \* the literal "\\n" appended after each text part

Hi == <<"H", "i">>
Texts == {<<" ">>, Hi}
Ids == {"t1", "t2"}

TextBlock(t) ==
    [type |-> "text", text |-> t, id |-> "", payload |-> <<>>]
ToolUseBlock(id) ==
    [type |-> "tool_use", text |-> <<>>, id |-> id, payload |-> <<"{}">>]
ToolResultBlock(id) ==
    [type |-> "tool_result", text |-> <<>>, id |-> id, payload |-> <<"ok">>]

\* The blocks each role's branch reads: the assistant branch reads text and
\* tool_use parts, the user branch text and tool_result parts, and the fallback
\* branch (any other role) text parts and, stringified, any other part.
BlocksOf(r) ==
    IF r = "assistant"
    THEN {TextBlock(t) : t \in Texts} \cup {ToolUseBlock(i) : i \in Ids}
    ELSE IF r = "user"
    THEN {TextBlock(t) : t \in Texts} \cup {ToolResultBlock(i) : i \in Ids}
    ELSE {TextBlock(<<" ">>), ToolUseBlock("t1")}

\* content is a string, an array of content blocks, or neither (absent/null);
\* NullMessage is a null element of the messages array.
StringMessage(r, t) == [role |-> r, kind |-> "string", text |-> t, blocks |-> <<>>]
ArrayMessage(r, bs) == [role |-> r, kind |-> "array", text |-> <<>>, blocks |-> bs]
AbsentMessage(r) == [role |-> r, kind |-> "absent", text |-> <<>>, blocks |-> <<>>]
NullMessage == [role |-> "", kind |-> "null", text |-> <<>>, blocks |-> <<>>]

Roles == {"user", "assistant", "system"}

\* the source messages with at most b content blocks
SourceMessages(b) ==
    {StringMessage(r, t) : r \in {"user", "assistant"}, t \in {<<>>, Hi}}
        \cup {AbsentMessage("user"), NullMessage}
        \cup UNION {{ArrayMessage(r, bs) : bs \in UNION {[1..k -> BlocksOf(r)] : k \in 0..b}}
                       : r \in Roles}

RECURSIVE TotalBlocks(_)
TotalBlocks(msgs) ==
    IF msgs = <<>> THEN 0 ELSE Len(Head(msgs).blocks) + TotalBlocks(Tail(msgs))

\* system: absent (defaults to []), an array of entries, or a bare string
SystemArray(ts) == [kind |-> "array", text |-> <<>>, entries |-> ts]
SystemString(t) == [kind |-> "string", text |-> t, entries |-> <<>>]
Helpful == <<"You are helpful">>
Systems == {SystemArray(<<>>), SystemArray(<<Helpful>>), SystemString(Helpful)}

-----------------------------------------------------------------------------
(* Target format *)

\* ckind: "string" (content is a string), "null" (content: null), "array"
\* (content is a list of content blocks).
ToolCall(part) ==
    [id |-> part.id, type |-> "function", name |-> "f", arguments |-> part.payload]

NoId == "undefined"

PlainMessage(r, t) ==
    [role |-> r, ckind |-> "string", content |-> t, blocks |-> <<>>,
     has_tool_calls |-> FALSE, tool_calls |-> <<>>, tool_call_id |-> NoId]

AssistantMessage(t, calls) ==
    [role |-> "assistant",
     ckind |-> IF Len(t) > 0 THEN "string" ELSE "null",
     content |-> t, blocks |-> <<>>,
     has_tool_calls |-> Len(calls) > 0, tool_calls |-> calls,
     tool_call_id |-> NoId]

ToolMessage(part) ==
    [role |-> "tool", ckind |-> "string", content |-> part.payload, blocks |-> <<>>,
     has_tool_calls |-> FALSE, tool_calls |-> <<>>, tool_call_id |-> part.id]

CacheBlock(t) == [type |-> "text", text |-> t, cache_control |-> "ephemeral"]

SystemMessage(t) ==
    [role |-> "system", ckind |-> "array", content |-> <<>>,
     blocks |-> <<CacheBlock(t)>>,
     has_tool_calls |-> FALSE, tool_calls |-> <<>>, tool_call_id |-> NoId]

\* JavaScript truthiness of message.content
ContentTruthy(m) ==
    \/ m.ckind = "string" /\ Len(m.content) > 0
    \/ m.ckind = "array"

-----------------------------------------------------------------------------
(* formatRequest: the flatMap over the source messages *)

\* JSON.stringify of a non-text content part (other roles)
StringifyPart(part) == <<"{", part.type, part.id, "}">>

\* textContent += part.text + "\\n" for every text part
RECURSIVE TextContent(_)
TextContent(parts) ==
    IF parts = <<>> THEN <<>>
    ELSE (IF Head(parts).type = "text" THEN Head(parts).text \o Sep ELSE <<>>)
            \o TextContent(Tail(parts))

\* combinedContent of the fallback branch
RECURSIVE CombinedContent(_)
CombinedContent(parts) ==
    IF parts = <<>> THEN <<>>
    ELSE (IF Head(parts).type = "text" THEN Head(parts).text \o Sep
                                        ELSE StringifyPart(Head(parts)) \o Sep)
            \o CombinedContent(Tail(parts))

RECURSIVE ToolCallsOf(_)
ToolCallsOf(parts) ==
    IF parts = <<>> THEN <<>>
    ELSE (IF Head(parts).type = "tool_use" THEN <<ToolCall(Head(parts))>> ELSE <<>>)
            \o ToolCallsOf(Tail(parts))

RECURSIVE SubsequentToolMessages(_)
SubsequentToolMessages(parts) ==
    IF parts = <<>> THEN <<>>
    ELSE (IF Head(parts).type = "tool_result" THEN <<ToolMessage(Head(parts))>>
                                               ELSE <<>>)
            \o SubsequentToolMessages(Tail(parts))

TranslateAssistant(m) ==
    LET trimmedTextContent == Trim(TextContent(m.blocks))
        toolCalls == ToolCallsOf(m.blocks)
    IN  IF Len(trimmedTextContent) > 0 \/ Len(toolCalls) > 0
        THEN <<AssistantMessage(trimmedTextContent, toolCalls)>>
        ELSE <<>>

TranslateUser(m) ==
    LET trimmedUserText == Trim(TextContent(m.blocks))
    IN  (IF Len(trimmedUserText) > 0
         THEN <<PlainMessage("user", trimmedUserText)>>
         ELSE <<>>)
        \o SubsequentToolMessages(m.blocks)

TranslateOther(m) ==
    LET trimmedCombinedContent == Trim(CombinedContent(m.blocks))
    IN  IF Len(trimmedCombinedContent) > 0
        THEN <<PlainMessage(m.role, trimmedCombinedContent)>>
        ELSE <<>>

TranslateMessage(m) ==
    IF m.kind # "array"
    THEN IF m.kind = "string" THEN <<PlainMessage(m.role, m.text)>> ELSE <<>>
    ELSE IF m.role = "assistant" THEN TranslateAssistant(m)
    ELSE IF m.role = "user" THEN TranslateUser(m)
    ELSE TranslateOther(m)

\* reading .content of a null element raises a TypeError inside the try block
TranslationThrows(msgs) == \E i \in 1..Len(msgs) : msgs[i].kind = "null"

RECURSIVE Translate(_)
Translate(msgs) ==
    IF msgs = <<>> THEN <<>>
    ELSE TranslateMessage(Head(msgs)) \o Translate(Tail(msgs))

-----------------------------------------------------------------------------
(* validateOpenAIToolCalls *)

\* role === "assistant" && tool_calls (an array is truthy, even when empty)
IsAssistantWithCalls(m) == m.role = "assistant" /\ m.has_tool_calls

\* the index just after the run of tool messages that starts at j
RECURSIVE RunEnd(_, _)
RunEnd(msgs, j) ==
    IF j <= Len(msgs) /\ msgs[j].role = "tool" THEN RunEnd(msgs, j + 1) ELSE j

\* a validator that looks at the one message right after the assistant message
ImmediateToolMessagesFirstOnly(msgs, i) ==
    IF i < Len(msgs) /\ msgs[i + 1].role = "tool" THEN <<msgs[i + 1]>> ELSE <<>>

ImmediateToolMessages(msgs, i) == SubSeq(msgs, i + 1, RunEnd(msgs, i + 1) - 1)

HasImmediateToolMessage(run, toolCall) ==
    \E n \in 1..Len(run) : run[n].tool_call_id = toolCall.id

\* a validator that keeps every tool_call, answered or not
ValidToolCallsKeepAll(msgs, i) == msgs[i].tool_calls

ValidToolCalls(msgs, i) ==
    LET run == ImmediateToolMessages(msgs, i)
    IN  SelectSeq(msgs[i].tool_calls, LAMBDA tc : HasImmediateToolMessage(run, tc))

\* a validator that emits the assistant message whatever is left of it
ValidateAssistantKeepsEmpty(msgs, i) ==
    <<[msgs[i] EXCEPT !.tool_calls = ValidToolCalls(msgs, i),
                      !.has_tool_calls = Len(ValidToolCalls(msgs, i)) > 0]>>

ValidateAssistant(msgs, i) ==
    LET validToolCalls == ValidToolCalls(msgs, i)
        currentMessage ==
            [msgs[i] EXCEPT !.tool_calls = validToolCalls,
                            !.has_tool_calls = Len(validToolCalls) > 0]
    IN  IF ContentTruthy(currentMessage) \/ currentMessage.has_tool_calls
        THEN <<currentMessage>>
        ELSE <<>>

SomeCallHasId(m, id) == \E n \in 1..Len(m.tool_calls) : m.tool_calls[n].id = id

\* a backward loop that goes on to the nearest assistant message with tool_calls
RECURSIVE ScanBackFurther(_, _, _)
ScanBackFurther(msgs, k, id) ==
    IF k < 1 THEN FALSE
    ELSE IF IsAssistantWithCalls(msgs[k]) THEN SomeCallHasId(msgs[k], id)
    ELSE ScanBackFurther(msgs, k - 1, id)

\* the backward loop: skip tool messages, look at the first other message only
RECURSIVE ScanBack(_, _, _)
ScanBack(msgs, k, id) ==
    IF k < 1 THEN FALSE
    ELSE IF msgs[k].role = "tool" THEN ScanBack(msgs, k - 1, id)
    ELSE IsAssistantWithCalls(msgs[k]) /\ SomeCallHasId(msgs[k], id)

HasImmediateToolCall(msgs, i) ==
    IF i > 1
    THEN LET prevMessage == msgs[i - 1]
         IN  IF IsAssistantWithCalls(prevMessage)
             THEN SomeCallHasId(prevMessage, msgs[i].tool_call_id)
             ELSE IF prevMessage.role = "tool"
             THEN ScanBack(msgs, i - 1, msgs[i].tool_call_id)
             ELSE FALSE
    ELSE FALSE

ValidateTool(msgs, i) == IF HasImmediateToolCall(msgs, i) THEN <<msgs[i]>> ELSE <<>>

ValidateAt(msgs, i) ==
    IF IsAssistantWithCalls(msgs[i]) THEN ValidateAssistant(msgs, i)
    ELSE IF msgs[i].role = "tool" THEN ValidateTool(msgs, i)
    ELSE <<msgs[i]>>

RECURSIVE ValidateFrom(_, _)
ValidateFrom(msgs, i) ==
    IF i > Len(msgs) THEN <<>> ELSE ValidateAt(msgs, i) \o ValidateFrom(msgs, i + 1)

validateOpenAIToolCalls(msgs) == ValidateFrom(msgs, 1)

-----------------------------------------------------------------------------
(* formatRequest: system messages and the cache marker on the last message *)

SystemMessages(sys) ==
    IF sys.kind = "array"
    THEN [n \in 1..Len(sys.entries) |-> SystemMessage(sys.entries[n])]
    ELSE <<SystemMessage(sys.text)>>

\* an annotator that leaves the last message as it is
AnnotateLastNothing(lastMessage) == lastMessage

AnnotateLast(lastMessage) ==
    IF lastMessage.ckind = "string"
    THEN [lastMessage EXCEPT !.ckind = "array", !.content = <<>>,
                             !.blocks = <<CacheBlock(lastMessage.content)>>]
    ELSE IF lastMessage.ckind = "array" /\ Len(lastMessage.blocks) > 0
            /\ lastMessage.blocks[Len(lastMessage.blocks)].type = "text"
    THEN [lastMessage EXCEPT
            !.blocks[Len(lastMessage.blocks)].cache_control = "ephemeral"]
    ELSE lastMessage

AddCacheControl(msgs) ==
    IF Len(msgs) > 0
    THEN [msgs EXCEPT ![Len(msgs)] = AnnotateLast(msgs[Len(msgs)])]
    ELSE msgs

\* data.messages as assigned to req.body when nothing throws
FormatMessages(msgs, sys) ==
    AddCacheControl(SystemMessages(sys) \o validateOpenAIToolCalls(Translate(msgs)))

-----------------------------------------------------------------------------
(* TransSpec: formatRequest's try block, one function at a time, on every   *)
(* bounded source message list and system field                             *)

TrIdle ==
    /\ messages = <<>>
    /\ system = SystemArray(<<>>)
    /\ tstage = "idle"
    /\ openAIMessages = <<>>
    /\ validatedOpenAIMessages = <<>>
    /\ dataMessages = <<>>

DecIdleState ==
    /\ sent = <<>>
    /\ source = <<>>
    /\ pos = 0
    /\ reader = "none"
    /\ pending = <<>>
    /\ buffer = <<>>
    /\ lines = <<>>
    /\ atEnd = FALSE
    /\ yielded = <<>>
    /\ dpc = "idle"
    /\ cut = FALSE

ReqIdle ==
    /\ Providers = <<>>
    /\ req = <<>>

ValIdle ==
    /\ vmessages = <<>>
    /\ vi = 0
    /\ validatedMessages = <<>>
    /\ revalidatedMessages = <<>>
    /\ vstage = "idle"

\* the cache as run() creates it: empty, nothing constructed, nothing looked up
CacheNew ==
    /\ providerCache = <<>>
    /\ now = 1
    /\ constructed = 0
    /\ lookups = 0
    /\ lastUse = <<>>
    /\ last = <<>>

TrInit ==
    /\ ReqIdle
    /\ DecIdleState
    /\ ValIdle
    /\ CacheNew
    /\ messages = <<>>
    /\ system \in Systems
    /\ tstage = "input"
    /\ openAIMessages = <<>>
    /\ validatedOpenAIMessages = <<>>
    /\ dataMessages = <<>>

\* the request body names one more source message
TrReceive ==
    /\ tstage = "input"
    /\ Len(messages) < MaxMsgs
    /\ \E m \in SourceMessages(MaxBlocks - TotalBlocks(messages)) :
          messages' = Append(messages, m)
    /\ UNCHANGED <<system, tstage, openAIMessages, validatedOpenAIMessages,
                   dataMessages, notTr>>

TrTranslate ==
    /\ tstage = "input"
    /\ ~TranslationThrows(messages)
    /\ openAIMessages' = Translate(messages)
    /\ tstage' = "translated"
    /\ UNCHANGED <<messages, system, validatedOpenAIMessages, dataMessages, notTr>>

TrThrow ==
    /\ tstage = "input"
    /\ TranslationThrows(messages)
    /\ tstage' = "threw"
    /\ UNCHANGED <<messages, system, openAIMessages, validatedOpenAIMessages,
                   dataMessages, notTr>>

TrValidate ==
    /\ tstage = "translated"
    /\ validatedOpenAIMessages' = validateOpenAIToolCalls(openAIMessages)
    /\ tstage' = "validated"
    /\ UNCHANGED <<messages, system, openAIMessages, dataMessages, notTr>>

TrAnnotate ==
    /\ tstage = "validated"
    /\ dataMessages' =
          AddCacheControl(SystemMessages(system) \o validatedOpenAIMessages)
    /\ tstage' = "final"
    /\ UNCHANGED <<messages, system, openAIMessages, validatedOpenAIMessages,
                   notTr>>

TrNext == TrReceive \/ TrTranslate \/ TrThrow \/ TrValidate \/ TrAnnotate

TransSpec == TrInit /\ [][TrNext]_vars

-----------------------------------------------------------------------------
(* Claims about translation and validation (TransSpec) *)

Validated == tstage \in {"validated", "final"}

\* the tool messages directly after position i, up to the next non-tool message
FollowingRun(out, i) ==
    {j \in (i + 1)..Len(out) : \A k \in (i + 1)..j : out[k].role = "tool"}

\* the nearest position before j that holds a non-tool message (0: none)
NearestNonTool(out, j) ==
    LET before == {k \in 1..(j - 1) : out[k].role # "tool"}
    IN  IF before = {} THEN 0 ELSE CHOOSE k \in before : \A l \in before : l <= k

CallIds(m) == {m.tool_calls[n].id : n \in 1..Len(m.tool_calls)}

CallsAnswered(out) ==
    \A i \in 1..Len(out) :
        out[i].role = "assistant" =>
            \A id \in CallIds(out[i]) :
                \E j \in FollowingRun(out, i) : out[j].tool_call_id = id

ResultsOwned(out) ==
    \A j \in 1..Len(out) :
        out[j].role = "tool" =>
            LET k == NearestNonTool(out, j)
            IN  /\ k > 0
                /\ out[k].role = "assistant"
                /\ out[j].tool_call_id \in CallIds(out[k])

\* C3: in the translated and validated list every tool_call kept on an
\* assistant message is answered by a tool message of the run of tool messages
\* right after it, and every tool message answers a tool_call of the nearest
\* preceding non-tool message, which is an assistant message.
C3_ToolPairing ==
    Validated =>
        /\ CallsAnswered(validatedOpenAIMessages)
        /\ ResultsOwned(validatedOpenAIMessages)

\* C3 witness: the validator dropped an unanswered call of an assistant
\* message and kept its answered call together with the answering tool message.
C3_Witness ==
    /\ tstage = "validated"
    /\ \E i \in 1..Len(openAIMessages) :
          /\ Len(openAIMessages[i].tool_calls) = 2
          /\ \E k \in 1..Len(validatedOpenAIMessages) :
                /\ Len(validatedOpenAIMessages[k].tool_calls) = 1
                /\ k < Len(validatedOpenAIMessages)
                /\ validatedOpenAIMessages[k + 1].role = "tool"

IsEmptyContent(m) == m.ckind = "null" \/ (m.ckind = "string" /\ m.content = <<>>)

\* C4: the translated and validated list holds no assistant message with both
\* empty or absent content and no tool_calls.
C4_NoEmptyAssistant ==
    Validated =>
        \A i \in 1..Len(validatedOpenAIMessages) :
            validatedOpenAIMessages[i].role = "assistant" =>
                \/ ~IsEmptyContent(validatedOpenAIMessages[i])
                \/ Len(validatedOpenAIMessages[i].tool_calls) > 0

\* C4 witness: an assistant message given as the empty string went through
\* translation and validation.
C4_Witness ==
    /\ tstage = "validated"
    /\ messages = <<StringMessage("assistant", <<>>)>>

\* the texts of the text blocks, each followed by a newline
RECURSIVE JoinWithNewlines(_)
JoinWithNewlines(parts) ==
    IF parts = <<>> THEN <<>>
    ELSE (IF Head(parts).type = "text" THEN Head(parts).text \o <<Newline>> ELSE <<>>)
            \o JoinWithNewlines(Tail(parts))

OnlyTextBlocks(m) ==
    /\ m.kind = "array"
    /\ Len(m.blocks) > 0
    /\ \A n \in 1..Len(m.blocks) : m.blocks[n].type = "text"

HiRequest ==
    /\ messages = <<ArrayMessage("user", <<TextBlock(Hi)>>)>>
    /\ system = SystemString(Helpful)

\* C5: a user message whose array content holds text blocks becomes one user
\* message holding the texts, each followed by a newline, trimmed; for the
\* messages [user: [text "Hi"]] with system "You are helpful" the final list
\* is the cache-marked system message and a user message whose content is the
\* single cache-marked text block "Hi".
C5_UserTextJoined ==
    /\ (tstage = "translated" /\ Len(messages) = 1
            /\ messages[1].role = "user" /\ OnlyTextBlocks(messages[1]))
        => LET joined == Trim(JoinWithNewlines(messages[1].blocks))
           IN  openAIMessages =
                  IF joined = <<>> THEN <<>> ELSE <<PlainMessage("user", joined)>>
    /\ (tstage = "final" /\ HiRequest)
        => /\ Len(dataMessages) = 2
           /\ dataMessages[1] = SystemMessage(Helpful)
           /\ dataMessages[2].role = "user"
           /\ dataMessages[2].blocks = <<CacheBlock(Hi)>>

\* C5 witness: the request of the scenario was translated and annotated.
C5_Witness == tstage = "final" /\ HiRequest

BlankTextOnly(m) ==
    /\ OnlyTextBlocks(m)
    /\ \A n \in 1..Len(m.blocks) : \A c \in 1..Len(m.blocks[n].text) :
          m.blocks[n].text[c] \in WhiteSpace

\* C6: source messages whose array content holds only empty or whitespace-only
\* text blocks (no tool-use, no tool-result) produce no target message.
C6_BlankTextOmitted ==
    (tstage = "translated" /\ \A i \in 1..Len(messages) : BlankTextOnly(messages[i]))
        => openAIMessages = <<>>

\* C6 witness: a message with one whitespace-only text block was translated.
C6_Witness ==
    /\ tstage = "translated"
    /\ messages = <<ArrayMessage("assistant", <<TextBlock(<<" ">>)>>)>>

\* the entries of the system field: those of the array, or the bare string
SystemTexts == IF system.kind = "array" THEN system.entries ELSE <<system.text>>

HasMarker(m, b) == m.blocks[b].cache_control = "ephemeral"

\* C15: in the final list each message built from the system field holds one
\* text block with an ephemeral marker, the last content block of the last
\* message carries one, no content block of any other message carries one,
\* and an empty list stays empty.
C15_CacheMarkers ==
    tstage = "final" =>
        /\ Len(dataMessages) = Len(SystemTexts) + Len(validatedOpenAIMessages)
        /\ \A i \in 1..Len(SystemTexts) :
              /\ dataMessages[i].role = "system"
              /\ dataMessages[i].ckind = "array"
              /\ Len(dataMessages[i].blocks) = 1
              /\ dataMessages[i].blocks[1].type = "text"
              /\ dataMessages[i].blocks[1].text = SystemTexts[i]
              /\ HasMarker(dataMessages[i], 1)
        /\ Len(dataMessages) > 0 =>
              /\ dataMessages[Len(dataMessages)].ckind = "array"
              /\ Len(dataMessages[Len(dataMessages)].blocks) > 0
              /\ HasMarker(dataMessages[Len(dataMessages)],
                           Len(dataMessages[Len(dataMessages)].blocks))
        /\ \A i \in (Len(SystemTexts) + 1)..(Len(dataMessages) - 1) :
              /\ dataMessages[i] = validatedOpenAIMessages[i - Len(SystemTexts)]
              /\ \A b \in 1..Len(dataMessages[i].blocks) : ~HasMarker(dataMessages[i], b)

\* C15 witness: a final list of a system message, an assistant message with a
\* tool_call and the tool message answering it, which is last.
C15_Witness ==
    /\ tstage = "final"
    /\ Len(dataMessages) = 3
    /\ dataMessages[1].role = "system"
    /\ dataMessages[2].role = "assistant"
    /\ dataMessages[3].role = "tool"

\* the tool-use blocks of a source message, in order
ToolUses(m) == SelectSeq(m.blocks, LAMBDA b : b.type = "tool_use")

ResultIdsOf(m) == {m.blocks[n].id : n \in {k \in 1..Len(m.blocks) : m.blocks[k].type = "tool_result"}}

\* source message i is an assistant message with tool-use blocks, each answered
\* by a tool-result block of the user message right after it
PairedAt(i) ==
    /\ i < Len(messages)
    /\ messages[i].kind = "array"
    /\ messages[i].role = "assistant"
    /\ ToolUses(messages[i]) # <<>>
    /\ messages[i + 1].kind = "array"
    /\ messages[i + 1].role = "user"
    /\ \A n \in 1..Len(ToolUses(messages[i])) :
           ToolUses(messages[i])[n].id \in ResultIdsOf(messages[i + 1])

\* the validated list holds an assistant message with one tool_call per
\* tool-use block of source message i, in order, and after it a tool message
\* for every one of their ids
PairKept(i) ==
    \E k \in 1..Len(validatedOpenAIMessages) :
        /\ validatedOpenAIMessages[k].role = "assistant"
        /\ Len(validatedOpenAIMessages[k].tool_calls) = Len(ToolUses(messages[i]))
        /\ \A n \in 1..Len(ToolUses(messages[i])) :
               /\ validatedOpenAIMessages[k].tool_calls[n].id = ToolUses(messages[i])[n].id
               /\ \E j \in (k + 1)..Len(validatedOpenAIMessages) :
                      /\ validatedOpenAIMessages[j].role = "tool"
                      /\ validatedOpenAIMessages[j].tool_call_id =
                             ToolUses(messages[i])[n].id

\* C21: when the tool-use blocks of an assistant source message are each
\* answered by a tool-result block with the same id in the user message right
\* after it (which may hold text blocks too), the translated and validated
\* list keeps every one of those tool calls on the assistant message and a
\* tool message for every one of them.
C21_PairedCallsKept ==
    Validated => \A i \in 1..Len(messages) : PairedAt(i) => PairKept(i)

\* C21 witness: an assistant message with one tool-use block, followed by a
\* user message holding a text block and the tool-result block answering it,
\* was translated and validated.
C21_Witness ==
    /\ tstage = "validated"
    /\ messages = <<ArrayMessage("assistant", <<ToolUseBlock("t1")>>),
                    ArrayMessage("user", <<TextBlock(Hi), ToolResultBlock("t1")>>)>>

-----------------------------------------------------------------------------
(* ValSpec: validateOpenAIToolCalls, one loop iteration at a time, on every  *)
(* bounded list of target messages, followed by a second call on its result  *)

\* an assistant message whose tool_calls is the empty array
AssistantNoCalls == [AssistantMessage(<<>>, <<>>) EXCEPT !.has_tool_calls = TRUE]

TargetMessages ==
    {AssistantMessage(t, [n \in 1..k |-> ToolCall(ToolUseBlock(<<"t1", "t2">>[n]))])
        : t \in {<<>>, Hi}, k \in 0..2}
      \cup {AssistantNoCalls, PlainMessage("user", Hi)}
      \cup {ToolMessage(ToolResultBlock(id)) : id \in Ids}

ValInit ==
    /\ TrIdle
    /\ ReqIdle
    /\ DecIdleState
    /\ CacheNew
    /\ vmessages = <<>>
    /\ vi = 0
    /\ validatedMessages = <<>>
    /\ revalidatedMessages = <<>>
    /\ vstage = "input"

\* the caller's list holds one more message
ValReceive ==
    /\ vstage = "input"
    /\ Len(vmessages) < MaxTarget
    /\ \E m \in TargetMessages : vmessages' = Append(vmessages, m)
    /\ UNCHANGED <<vi, validatedMessages, revalidatedMessages, vstage, notVal>>

\* validateOpenAIToolCalls(messages): validatedMessages = [], i = 0
ValCall ==
    /\ vstage = "input"
    /\ vstage' = "loop"
    /\ vi' = 1
    /\ UNCHANGED <<vmessages, validatedMessages, revalidatedMessages, notVal>>

\* an iteration that writes to messages[i] itself instead of a copy of it
ValStepInPlace ==
    /\ vstage = "loop"
    /\ vi <= Len(vmessages)
    /\ validatedMessages' = validatedMessages \o ValidateAt(vmessages, vi)
    /\ vmessages' =
          IF IsAssistantWithCalls(vmessages[vi])
          THEN [vmessages EXCEPT
                  ![vi].tool_calls = ValidToolCalls(vmessages, vi),
                  ![vi].has_tool_calls = Len(ValidToolCalls(vmessages, vi)) > 0]
          ELSE vmessages
    /\ vi' = vi + 1
    /\ UNCHANGED <<revalidatedMessages, vstage, notVal>>

\* one iteration of the for loop: currentMessage is a copy of messages[i]
ValStep ==
    /\ vstage = "loop"
    /\ vi <= Len(vmessages)
    /\ validatedMessages' = validatedMessages \o ValidateAt(vmessages, vi)
    /\ vi' = vi + 1
    /\ UNCHANGED <<vmessages, revalidatedMessages, vstage, notVal>>

\* i reached messages.length: return validatedMessages
ValReturn ==
    /\ vstage = "loop"
    /\ vi > Len(vmessages)
    /\ vstage' = "done"
    /\ UNCHANGED <<vmessages, vi, validatedMessages, revalidatedMessages, notVal>>

\* the result is handed to validateOpenAIToolCalls once more
ValAgain ==
    /\ vstage = "done"
    /\ revalidatedMessages' = validateOpenAIToolCalls(validatedMessages)
    /\ vstage' = "again"
    /\ UNCHANGED <<vmessages, vi, validatedMessages, notVal>>

ValNext == ValReceive \/ ValCall \/ ValStep \/ ValReturn \/ ValAgain

ValSpec == ValInit /\ [][ValNext]_vars

-----------------------------------------------------------------------------
(* Claims about the validator (ValSpec) *)

\* the loop is about to visit messages[vi]
InLoop == vstage = "loop" /\ vi <= Len(vmessages)

Emitted(m) == validatedMessages' = Append(validatedMessages, m)
NothingEmitted == validatedMessages' = validatedMessages

\* a tool message of the run right after position i carries this id
AnsweredAfter(msgs, i, id) ==
    \E j \in FollowingRun(msgs, i) : msgs[j].tool_call_id = id

\* an assistant message with tool_calls, each answered in the run after it
FullyAnswered(msgs, i) ==
    /\ msgs[i].role = "assistant"
    /\ Len(msgs[i].tool_calls) > 0
    /\ \A id \in CallIds(msgs[i]) : AnsweredAfter(msgs, i, id)

\* the nearest preceding non-tool message exists, is an assistant message with
\* tool_calls and holds a call with the tool message's id
Owned(msgs, j) ==
    /\ NearestNonTool(msgs, j) > 0
    /\ msgs[NearestNonTool(msgs, j)].role = "assistant"
    /\ msgs[NearestNonTool(msgs, j)].has_tool_calls
    /\ msgs[j].tool_call_id \in CallIds(msgs[NearestNonTool(msgs, j)])

\* C11: the validator is idempotent: a second pass over the result of the
\* first returns it as it is; and an assistant message all of whose tool_calls
\* are answered in the run of tool messages right after it is emitted
\* unchanged, as are the tool messages of that run that answer it.
C11_Idempotent ==
    /\ [](vstage = "again" => revalidatedMessages = validatedMessages)
    /\ [][(InLoop /\ FullyAnswered(vmessages, vi)) => Emitted(vmessages[vi])]_vars
    /\ [][(InLoop /\ vmessages[vi].role = "tool" /\ Owned(vmessages, vi)
              /\ FullyAnswered(vmessages, NearestNonTool(vmessages, vi)))
            => Emitted(vmessages[vi])]_vars

\* C11 witness: a list with a fully answered assistant message, which the
\* first pass changed elsewhere, went through both passes.
C11_Witness ==
    /\ vstage = "again"
    /\ validatedMessages # vmessages
    /\ \E i \in 1..Len(vmessages) :
          FullyAnswered(vmessages, i) /\ Len(vmessages[i].tool_calls) = 2

\* C17: a tool message is kept exactly when the nearest preceding message
\* that is not a tool message exists, is an assistant message with tool_calls
\* and has a call with the tool message's tool_call_id; nothing before that
\* message is looked at.
C17_ToolKeptIffOwned ==
    [][(InLoop /\ vmessages[vi].role = "tool")
          => IF Owned(vmessages, vi) THEN Emitted(vmessages[vi]) ELSE NothingEmitted]_vars

\* C17 witness: a tool message whose call sits on an assistant message behind
\* a user message and another tool message was dropped.
C17_Witness ==
    /\ vstage = "done"
    /\ Len(vmessages) = 4
    /\ vmessages[1] = AssistantMessage(Hi, <<ToolCall(ToolUseBlock("t1"))>>)
    /\ vmessages[2].role = "user"
    /\ vmessages[3] = ToolMessage(ToolResultBlock("t2"))
    /\ vmessages[4] = ToolMessage(ToolResultBlock("t1"))
    /\ \A k \in 1..Len(validatedMessages) : validatedMessages[k].role # "tool"

\* the tool_calls of messages[i] answered in the run after it, in their order
MatchedCalls(msgs, i) ==
    SelectSeq(msgs[i].tool_calls, LAMBDA tc : AnsweredAfter(msgs, i, tc.id))

HasText(m) == m.ckind = "string" /\ m.content # <<>>

\* C18: an assistant message with tool_calls is emitted exactly when it has
\* non-empty content or a tool_call answered in the run of tool messages right
\* after it; its emitted tool_calls are the answered calls in their original
\* order, and the field is absent when none is answered.
C18_AssistantEmittedIffContentOrMatch ==
    [][(InLoop /\ vmessages[vi].role = "assistant" /\ vmessages[vi].has_tool_calls)
          => IF HasText(vmessages[vi]) \/ MatchedCalls(vmessages, vi) # <<>>
             THEN Emitted([vmessages[vi] EXCEPT
                             !.tool_calls = MatchedCalls(vmessages, vi),
                             !.has_tool_calls = MatchedCalls(vmessages, vi) # <<>>])
             ELSE NothingEmitted]_vars

\* C18 witness: an assistant message without text whose only tool_call has no
\* tool message after it was dropped.
C18_Witness ==
    /\ vstage = "done"
    /\ vmessages = <<AssistantMessage(<<>>, <<ToolCall(ToolUseBlock("t1"))>>)>>
    /\ validatedMessages = <<>>

IsOther(m) == m.role # "tool" /\ ~(m.role = "assistant" /\ m.has_tool_calls)

\* m with its tool_calls field set aside
WithoutCalls(m) == [m EXCEPT !.tool_calls = <<>>, !.has_tool_calls = FALSE]

\* C19: a message that is neither a tool message nor an assistant message
\* with tool_calls is emitted as it is, in its turn; every iteration emits
\* nothing or the one message it visits, altered at most in the tool_calls of
\* an assistant message; and the list handed in is left as it was.
C19_OthersUntouched ==
    /\ [][(InLoop /\ IsOther(vmessages[vi])) => Emitted(vmessages[vi])]_vars
    /\ [][InLoop =>
            /\ vi' = vi + 1
            /\ \/ NothingEmitted
               \/ Emitted(vmessages[vi])
               \/ /\ ~IsOther(vmessages[vi])
                  /\ vmessages[vi].role = "assistant"
                  /\ Len(validatedMessages') = Len(validatedMessages) + 1
                  /\ SubSeq(validatedMessages', 1, Len(validatedMessages))
                        = validatedMessages
                  /\ WithoutCalls(validatedMessages'[Len(validatedMessages')])
                        = WithoutCalls(vmessages[vi])]_vars
    /\ [][vstage # "input" => vmessages' = vmessages]_vars

\* C19 witness: a user message and an assistant message without tool_calls came
\* through, in their order, around a tool message that was dropped.
C19_Witness ==
    /\ vstage = "done"
    /\ vmessages = <<PlainMessage("user", Hi), ToolMessage(ToolResultBlock("t1")),
                     AssistantMessage(Hi, <<>>)>>
    /\ validatedMessages = <<PlainMessage("user", Hi), AssistantMessage(Hi, <<>>)>>

-----------------------------------------------------------------------------
(* The server: run() builds the provider registry; every request passes     *)
(* formatRequest and then the POST /v1/messages handler                     *)

Requests == 1..NumRequests

\* config.Providers and whether OPENAI_API_KEY, OPENAI_BASE_URL and
\* OPENAI_MODEL are all set
ProviderP1 == [name |-> "p1", api_base_url |-> "https://p1", api_key |-> "k1"]
OpenAIDefault ==
    [name |-> "default", api_base_url |-> "https://openai", api_key |-> "k0"]
Configs ==
    {[Providers |-> ps, openai |-> o] : ps \in {<<>>, <<ProviderP1>>}, o \in BOOLEAN}

NotRegistered == [name |-> "", api_base_url |-> "", api_key |-> ""]
ProviderNames == {"default", "p1", "ghost"}

\* Providers.set per configured provider, then the "default" entry
BuildProviders(config) ==
    [n \in ProviderNames |->
        IF n = "default"
        THEN IF config.openai THEN OpenAIDefault
             ELSE IF Len(config.Providers) > 0 THEN config.Providers[1]
             ELSE NotRegistered
        ELSE IF \E i \in 1..Len(config.Providers) : config.Providers[i].name = n
        THEN config.Providers[CHOOSE i \in 1..Len(config.Providers) :
                                  config.Providers[i].name = n]
        ELSE NotRegistered]

\* Providers.get(name) !== undefined
Registered(name) == Providers[name] # NotRegistered

\* the request bodies the requests carry
ReqBodies ==
    {<<ArrayMessage("user", <<TextBlock(Hi)>>)>>,
     <<StringMessage("user", Hi), NullMessage>>}

\* the argument handed to streamOpenAIResponse
ErrorCompletion(model) == [by |-> "formatRequest", arg |-> "error chunk", model |-> model]
Completion(stream, model) ==
    [by |-> "handler", arg |-> IF stream THEN "decoder" ELSE "object", model |-> model]

NewRequest(msgs, provider, stream) ==
    [pc |-> "new", messages |-> msgs, system |-> SystemString(Helpful),
     provider |-> provider, stream |-> stream, model |-> "m", translated |-> FALSE, body |-> <<>>, headers |-> {},
     writes |-> <<>>, error |-> "none"]

\* res.setHeader calls of formatRequest
FormatHeaders(stream) ==
    (IF stream THEN {"Content-Type"} ELSE {}) \cup {"Cache-Control", "Connection"}

Init ==
    /\ TrIdle
    /\ DecIdleState
    /\ ValIdle
    /\ CacheNew
    /\ \E config \in Configs : Providers = BuildProviders(config)
    /\ req \in [Requests -> {NewRequest(b, p, st) :
                                b \in ReqBodies, p \in ProviderNames, st \in BOOLEAN}]

\* formatRequest, nothing thrown: req.body = data, headers set, next()
FormatOk(r) ==
    /\ req[r].pc = "new"
    /\ ~TranslationThrows(req[r].messages)
    /\ req' = [req EXCEPT ![r].pc = "handler",
                          ![r].translated = TRUE,
                          ![r].body = FormatMessages(req[r].messages, req[r].system),
                          ![r].headers = FormatHeaders(req[r].stream)]
    /\ UNCHANGED <<Providers, notReq>>

\* formatRequest, catch branch: the error chunk is handed to the writer
FormatThrow(r) ==
    /\ req[r].pc = "new"
    /\ TranslationThrows(req[r].messages)
    /\ req' = [req EXCEPT ![r].pc = "format_write",
                          ![r].writes = Append(@, ErrorCompletion(req[r].model))]
    /\ UNCHANGED <<Providers, notReq>>

\* await streamOpenAIResponse(...) returns in formatRequest; next()
FormatWritten(r) ==
    /\ req[r].pc = "format_write"
    /\ req' = [req EXCEPT ![r].pc = "handler"]
    /\ UNCHANGED <<Providers, notReq>>

\* the handler up to fetch: an unregistered provider throws into the catch,
\* which only logs
HandlerLookup(r) ==
    /\ req[r].pc = "handler"
    /\ req' = IF Registered(req[r].provider)
              THEN [req EXCEPT ![r].pc = "fetch"]
              ELSE [req EXCEPT ![r].pc = "done", ![r].error = "not found"]
    /\ UNCHANGED <<Providers, notReq>>

\* fetch resolves with a success status
FetchOk(r) ==
    /\ req[r].pc = "fetch"
    /\ req' = IF req[r].stream
              THEN [req EXCEPT ![r].pc = "write",
                               ![r].writes = Append(@, Completion(TRUE, req[r].model))]
              ELSE [req EXCEPT ![r].pc = "json"]
    /\ UNCHANGED <<Providers, notReq>>

\* fetch resolves with a non-success status: throw, caught, logged
FetchNotOk(r) ==
    /\ req[r].pc = "fetch"
    /\ req' = [req EXCEPT ![r].pc = "done", ![r].error = "http"]
    /\ UNCHANGED <<Providers, notReq>>

\* fetch rejects (no connection): caught, logged
FetchRejects(r) ==
    /\ req[r].pc = "fetch"
    /\ req' = [req EXCEPT ![r].pc = "done", ![r].error = "network"]
    /\ UNCHANGED <<Providers, notReq>>

\* await response.json() returns the parsed body
JsonOk(r) ==
    /\ req[r].pc = "json"
    /\ req' = [req EXCEPT ![r].pc = "write",
                          ![r].writes = Append(@, Completion(FALSE, req[r].model))]
    /\ UNCHANGED <<Providers, notReq>>

\* await response.json() rejects: caught, logged
JsonRejects(r) ==
    /\ req[r].pc = "json"
    /\ req' = [req EXCEPT ![r].pc = "done", ![r].error = "json"]
    /\ UNCHANGED <<Providers, notReq>>

\* await streamOpenAIResponse(...) returns in the handler
HandlerWritten(r) ==
    /\ req[r].pc = "write"
    /\ req' = [req EXCEPT ![r].pc = "done"]
    /\ UNCHANGED <<Providers, notReq>>

Next ==
    \E r \in Requests :
        \/ FormatOk(r)
        \/ FormatThrow(r)
        \/ FormatWritten(r)
        \/ HandlerLookup(r)
        \/ FetchOk(r)
        \/ FetchNotOk(r)
        \/ FetchRejects(r)
        \/ JsonOk(r)
        \/ JsonRejects(r)
        \/ HandlerWritten(r)

Spec == Init /\ [][Next]_vars

-----------------------------------------------------------------------------
(* Claims about the request path (Spec) *)

\* C1: streamOpenAIResponse is called exactly once per request: never twice
\* while the request is served, and once by the time it is done.
C1_WriterCalledOnce ==
    \A r \in Requests :
        /\ Len(req[r].writes) <= 1
        /\ req[r].pc = "done" => Len(req[r].writes) = 1

\* C1 witness: a request whose translation succeeded was dispatched to an
\* unregistered provider and is done.
C1_Witness ==
    \E r \in Requests :
        req[r].pc = "done" /\ req[r].translated /\ req[r].error = "not found"

DispatchFailed(r) == req[r].pc = "done" /\ req[r].error \in {"not found", "http"}

\* C2: when dispatch fails (unregistered provider, non-success status) the
\* handler hands the writer a one-element sequence holding an error chunk that
\* carries the requested model.
C2_DispatchFailureReported ==
    \A r \in Requests :
        DispatchFailed(r) =>
            \E i \in 1..Len(req[r].writes) :
                /\ req[r].writes[i].by = "handler"
                /\ req[r].writes[i].arg = "error chunk"
                /\ req[r].writes[i].model = req[r].model

\* C2 witness: the upstream call of a request returned a non-success status.
C2_Witness == \E r \in Requests : req[r].pc = "done" /\ req[r].error = "http"

StreamingHeaders == {"Content-Type", "Cache-Control", "Connection"}

\* the request has left formatRequest: the handler runs or has run
Dispatching(r) == req[r].pc \notin {"new", "format_write"}

\* C16: a request that asks for streaming has the headers Content-Type,
\* Cache-Control and Connection set by the time the handler runs, whether its
\* translation succeeded or threw.
C16_StreamHeadersSet ==
    \A r \in Requests :
        (req[r].stream /\ Dispatching(r)) => StreamingHeaders \subseteq req[r].headers

\* C16 witness: a streaming request whose translation threw reached the
\* handler.
C16_Witness ==
    \E r \in Requests :
        req[r].stream /\ ~req[r].translated /\ req[r].pc = "handler"

\* C14 as stated, on the handler: once the outbound call for a registered
\* provider has been issued the cache holds a live entry for that provider,
\* and no outbound call is issued for an unregistered name.
C14_DispatchThroughCache ==
    \A r \in Requests :
        /\ (req[r].pc \in {"fetch", "json", "write"} \/ req[r].error \in {"http", "network", "json"})
            => /\ Registered(req[r].provider)
               /\ \E e \in 1..Len(providerCache) :
                     /\ providerCache[e].key = Providers[req[r].provider].name
                     /\ now - providerCache[e].start <= ttl
        /\ req[r].error = "not found" => ~Registered(req[r].provider)

\* C14 witness: the outbound call of a request to a registered provider was
\* issued and answered.
C14_Witness ==
    \E r \in Requests :
        req[r].pc = "write" /\ Registered(req[r].provider)

-----------------------------------------------------------------------------
(* The provider client cache: an LRUCache of at most max entries, each      *)
(* stale once older than ttl, and getProviderInstance on top of it.         *)
(* Entries are kept most recently used first.                               *)

\* a registry of more providers than the cache holds
PNames == <<"p1", "p2", "p3", "p4", "p5", "p6", "p7", "p8", "p9", "p10", "p11">>
PUrls == <<"https://p1", "https://p2", "https://p3", "https://p4", "https://p5",
           "https://p6", "https://p7", "https://p8", "https://p9", "https://p10",
           "https://p11">>
PKeys == <<"k1", "k2", "k3", "k4", "k5", "k6", "k7", "k8", "k9", "k10", "k11">>

ManyProviders ==
    [n \in 1..Len(PNames) |->
        [name |-> PNames[n], api_base_url |-> PUrls[n], api_key |-> PKeys[n]]]

LookupNames == {"default", "ghost"} \cup {PNames[n] : n \in 1..Len(PNames)}

\* Providers.set per configured provider, then "default": the first provider
BuildManyProviders ==
    [n \in LookupNames |->
        IF n = "default" THEN ManyProviders[1]
        ELSE IF \E i \in 1..Len(PNames) : PNames[i] = n
        THEN ManyProviders[CHOOSE i \in 1..Len(PNames) : PNames[i] = n]
        ELSE NotRegistered]

\* ---- LRUCache
Entry(key, value, start) == [key |-> key, value |-> value, start |-> start]

IsStale(e, t) == t - e.start > ttl

Without(entries, key) == SelectSeq(entries, LAMBDA e : e.key # key)

HasKey(entries, key) == \E n \in 1..Len(entries) : entries[n].key = key

Find(entries, key) == entries[CHOOSE n \in 1..Len(entries) : entries[n].key = key]

\* get(key): a live entry becomes the most recently used and its value is
\* returned; a stale entry is deleted and undefined returned
CacheGet(entries, key, t) ==
    IF ~HasKey(entries, key)
    THEN [found |-> FALSE, entries |-> entries]
    ELSE IF IsStale(Find(entries, key), t)
    THEN [found |-> FALSE, entries |-> Without(entries, key)]
    ELSE [found |-> TRUE, entries |-> <<Find(entries, key)>> \o Without(entries, key)]

\* a lookup that does not touch the order of use (peek)
CachePeek(entries, key, t) ==
    IF HasKey(entries, key) /\ ~IsStale(Find(entries, key), t)
    THEN [found |-> TRUE, entries |-> entries]
    ELSE [found |-> FALSE, entries |-> Without(entries, key)]

\* set(key, value): at capacity the least recently used entry is evicted
CacheSet(entries, key, value, t) ==
    LET others == Without(entries, key)
        kept == IF Len(others) >= max THEN SubSeq(others, 1, max - 1) ELSE others
    IN  <<Entry(key, value, t)>> \o kept

\* ---- getProviderInstance
\* new OpenAI({baseURL, apiKey, ...}); id tells one construction from another
NewOpenAI(provider, id) ==
    [id |-> id, baseURL |-> provider.api_base_url, apiKey |-> provider.api_key]

NoClient == [id |-> 0, baseURL |-> "", apiKey |-> ""]

Outcome(threw, openai, fresh, entries) ==
    [threw |-> threw, openai |-> openai, fresh |-> fresh, entries |-> entries]

\* a getProviderInstance that never stores the client it constructs
GetProviderInstanceNoSet(registry, entries, made, providerName, t) ==
    IF registry[providerName] = NotRegistered
    THEN Outcome(TRUE, NoClient, FALSE, entries)
    ELSE LET got == CacheGet(entries, registry[providerName].name, t)
         IN  IF got.found
             THEN Outcome(FALSE, got.entries[1].value, FALSE, got.entries)
             ELSE Outcome(FALSE, NewOpenAI(registry[providerName], made + 1), TRUE,
                          got.entries)

\* a getProviderInstance that reads the cache without marking the entry used
GetProviderInstancePeek(registry, entries, made, providerName, t) ==
    IF registry[providerName] = NotRegistered
    THEN Outcome(TRUE, NoClient, FALSE, entries)
    ELSE LET provider == registry[providerName]
             got == CachePeek(entries, provider.name, t)
         IN  IF got.found
             THEN Outcome(FALSE, Find(got.entries, provider.name).value, FALSE,
                          got.entries)
             ELSE Outcome(FALSE, NewOpenAI(provider, made + 1), TRUE,
                          CacheSet(got.entries, provider.name,
                                   NewOpenAI(provider, made + 1), t))

\* a getProviderInstance that stores every client under one key
GetProviderInstanceOneKey(registry, entries, made, providerName, t) ==
    IF registry[providerName] = NotRegistered
    THEN Outcome(TRUE, NoClient, FALSE, entries)
    ELSE LET provider == registry[providerName]
             got == CacheGet(entries, "default", t)
         IN  IF got.found
             THEN Outcome(FALSE, got.entries[1].value, FALSE, got.entries)
             ELSE Outcome(FALSE, NewOpenAI(provider, made + 1), TRUE,
                          CacheSet(got.entries, "default",
                                   NewOpenAI(provider, made + 1), t))

\* getProviderInstance(providerName) at time t, made clients constructed so far
GetProviderInstance(registry, entries, made, providerName, t) ==
    IF registry[providerName] = NotRegistered
    THEN Outcome(TRUE, NoClient, FALSE, entries)
    ELSE LET provider == registry[providerName]
             got == CacheGet(entries, provider.name, t)
         IN  IF got.found
             THEN Outcome(FALSE, got.entries[1].value, FALSE, got.entries)
             ELSE Outcome(FALSE, NewOpenAI(provider, made + 1), TRUE,
                          CacheSet(got.entries, provider.name,
                                   NewOpenAI(provider, made + 1), t))

-----------------------------------------------------------------------------
(* CacheSpec: requests call getProviderInstance, one call at a time (the     *)
(* function never awaits), while the clock advances. The cache starts empty  *)
(* or as max first lookups, of p1 to p10 in this order, leave it.            *)

\* the names the requests ask for
AskedNames == {"default", "ghost", "p1", "p2", "p10", "p11"}

NoLookup ==
    [by |-> 0, name |-> "", at |-> 0, follows |-> 0, threw |-> FALSE,
     openai |-> NoClient, fresh |-> FALSE]

\* the entries after first lookups of the first k providers at time t
RECURSIVE Warmed(_, _)
Warmed(k, t) ==
    IF k = 0 THEN <<>>
    ELSE GetProviderInstance(BuildManyProviders, Warmed(k - 1, t), k - 1,
                             PNames[k], t).entries

CacheInit ==
    /\ TrIdle
    /\ DecIdleState
    /\ ValIdle
    /\ req = <<>>
    /\ Providers = BuildManyProviders
    /\ now = 1
    /\ \E k \in {0, max} :
          /\ providerCache = Warmed(k, 1)
          /\ constructed = k
          /\ lookups = 0
          /\ lastUse = [n \in 1..Len(PNames) |-> IF n <= k THEN n ELSE 0]
          /\ last = IF k = 0 THEN NoLookup
                    ELSE [by |-> 1, name |-> PNames[k], at |-> 1, follows |-> 0,
                          threw |-> FALSE,
                          openai |-> NewOpenAI(ManyProviders[k], k), fresh |-> TRUE]

\* the position of a provider name in the registry's list
IndexOf(name) == CHOOSE n \in 1..Len(PNames) : PNames[n] = name

\* request r calls getProviderInstance(name)
Lookup(r, name) ==
    /\ lookups < MaxLookups
    /\ LET out == GetProviderInstance(Providers, providerCache, constructed, name, now)
       IN  /\ providerCache' = out.entries
           /\ constructed' = IF out.fresh THEN constructed + 1 ELSE constructed
           /\ lookups' = lookups + 1
           /\ lastUse' = IF out.threw THEN lastUse
                         ELSE [lastUse EXCEPT ![IndexOf(Providers[name].name)] =
                                                  max + lookups + 1]
           /\ last' = [by |-> r, name |-> name, at |-> now,
                       follows |-> IF last.fresh /\ last.name = name
                                   THEN last.by ELSE 0,
                       threw |-> out.threw, openai |-> out.openai,
                       fresh |-> out.fresh]
    /\ UNCHANGED <<now, Providers, req, notCache>>

\* an hour passes
Tick ==
    /\ now < MaxClock
    /\ now' = now + 1
    /\ UNCHANGED <<providerCache, constructed, lookups, lastUse, last, Providers, req,
                   notCache>>

CacheNext ==
    \/ \E r \in Requests, name \in AskedNames : Lookup(r, name)
    \/ Tick

CacheSpec == CacheInit /\ [][CacheNext]_vars

-----------------------------------------------------------------------------
(* Claims about the provider client cache (CacheSpec)                        *)

IsLookup == lookups' = lookups + 1

\* the key getProviderInstance uses for the name just asked for
AskedKey == Providers[last'.name].name

Keys(entries) == {entries[n].key : n \in 1..Len(entries)}

Entries(entries) == {entries[n] : n \in 1..Len(entries)}

\* C12: a lookup of a registered name whose entry is in the cache and not
\* older than ttl returns the client of that entry and constructs nothing;
\* any other lookup of a registered name constructs a client no lookup has
\* returned before, returns it and inserts it with the present time.
C12_SameClientWhileLive ==
    [][(IsLookup /\ ~last'.threw) =>
         IF \E e \in Entries(providerCache) : e.key = AskedKey /\ now - e.start <= ttl
         THEN /\ constructed' = constructed
              /\ ~last'.fresh
              /\ \E e \in Entries(providerCache) :
                     e.key = AskedKey /\ e.value = last'.openai
         ELSE /\ constructed' = constructed + 1
              /\ last'.fresh
              /\ \A e \in Entries(providerCache) : e.value # last'.openai
              /\ Entry(AskedKey, last'.openai, now) \in Entries(providerCache')]_vars

\* a second lookup returned the client inserted ttl hours before
C12_Witness ==
    /\ last.by # 0
    /\ ~last.threw
    /\ ~last.fresh
    /\ last.at = 1 + ttl
    /\ lookups >= 2
    /\ \E e \in Entries(providerCache) :
           e.value = last.openai /\ e.start = 1 /\ e.value.id > max

\* the key in the cache that was used longest ago
LeastRecentlyUsed(entries) ==
    CHOOSE k \in Keys(entries) :
        \A j \in Keys(entries) : lastUse[IndexOf(k)] <= lastUse[IndexOf(j)]

\* C13: the cache never holds more than max entries, and a lookup of a
\* registered name that is not in a full cache evicts exactly the entry used
\* longest ago: the other max - 1 entries stay as they are and the new one is
\* added.
C13_EvictsLeastRecentlyUsed ==
    /\ [](Len(providerCache) <= max)
    /\ [][(/\ IsLookup
           /\ ~last'.threw
           /\ Len(providerCache) = max
           /\ AskedKey \notin Keys(providerCache)) =>
            /\ Len(providerCache') = max
            /\ Entries(providerCache') =
                 {e \in Entries(providerCache) :
                      e.key # LeastRecentlyUsed(providerCache)}
                 \cup {Entry(AskedKey, last'.openai, now)}]_vars

\* p1 was used again, then the eleventh name evicted p2
C13_Witness ==
    /\ Len(providerCache) = max
    /\ last.name = "p11"
    /\ last.fresh
    /\ "p11" \in Keys(providerCache)
    /\ "p1" \in Keys(providerCache)
    /\ "p2" \notin Keys(providerCache)

\* C20: whatever the order in which the requests' lookups run, the cache has
\* at most one entry per provider name and at most max entries, every client
\* in it is bound to the provider its key names, and the client a lookup
\* returns is bound to the base URL and the credential of the provider asked
\* for.
C20_NeverCorrupted ==
    /\ Len(providerCache) <= max
    /\ \A i, j \in 1..Len(providerCache) :
           providerCache[i].key = providerCache[j].key => i = j
    /\ \A e \in Entries(providerCache) :
           \E n \in 1..Len(PNames) :
               /\ e.key = PNames[n]
               /\ e.value.baseURL = PUrls[n]
               /\ e.value.apiKey = PKeys[n]
    /\ (last.by # 0 /\ ~last.threw) =>
           /\ last.openai.baseURL = Providers[last.name].api_base_url
           /\ last.openai.apiKey = Providers[last.name].api_key

\* a request looked a name up right after another request's cold lookup of it
C20_Witness ==
    /\ last.follows # 0
    /\ last.follows # last.by
    /\ ~last.threw
    /\ ~last.fresh
    /\ "p2" \in Keys(providerCache)
    /\ last.name # "p2"

-----------------------------------------------------------------------------
(* JSON.parse, on the characters the model's streams are made of: numbers    *)
(* of the digits 1 and 2, strings without escapes, objects and arrays. The   *)
(* parsed value is kept as its text without insignificant whitespace.        *)

Quote == "\""
Digits == {"1", "2"}
JsonSpace == {" ", Newline, "\r", "\t"}
Replacement == "U+FFFD"      \* the character a malformed byte decodes to
EAcute == "U+00E9"           \* a character of two bytes in UTF-8

ParseFail == [ok |-> FALSE, next |-> 0, val |-> <<>>]
Parsed(n, v) == [ok |-> TRUE, next |-> n, val |-> v]

RECURSIVE SkipSpace(_, _)
SkipSpace(s, i) ==
    IF i <= Len(s) /\ s[i] \in JsonSpace THEN SkipSpace(s, i + 1) ELSE i

RECURSIVE DigitsEnd(_, _)
DigitsEnd(s, i) == IF i <= Len(s) /\ s[i] \in Digits THEN DigitsEnd(s, i + 1) ELSE i

\* the position of the quote closing the string that opens before i (0: none)
RECURSIVE StringEnd(_, _)
StringEnd(s, i) ==
    IF i > Len(s) THEN 0
    ELSE IF s[i] = Quote THEN i
    ELSE IF s[i] \in {Backslash, Newline, "\r", "\t"} THEN 0
    ELSE StringEnd(s, i + 1)

ParseString(s, i) ==
    IF i <= Len(s) /\ s[i] = Quote /\ StringEnd(s, i + 1) > 0
    THEN Parsed(StringEnd(s, i + 1) + 1, SubSeq(s, i, StringEnd(s, i + 1)))
    ELSE ParseFail

RECURSIVE ParseValue(_, _)
RECURSIVE ParseMembers(_, _)
RECURSIVE ParseElements(_, _)

ParseValue(s, i) ==
    LET j == SkipSpace(s, i)
    IN  IF j > Len(s) THEN ParseFail
        ELSE IF s[j] \in Digits THEN Parsed(DigitsEnd(s, j), SubSeq(s, j, DigitsEnd(s, j) - 1))
        ELSE IF s[j] = Quote THEN ParseString(s, j)
        ELSE IF s[j] = "{"
        THEN LET k == SkipSpace(s, j + 1)
             IN  IF k <= Len(s) /\ s[k] = "}" THEN Parsed(k + 1, <<"{", "}">>)
                 ELSE LET m == ParseMembers(s, k)
                      IN  IF m.ok /\ m.next <= Len(s) /\ s[m.next] = "}"
                          THEN Parsed(m.next + 1, <<"{">> \o m.val \o <<"}">>)
                          ELSE ParseFail
        ELSE IF s[j] = "["
        THEN LET k == SkipSpace(s, j + 1)
             IN  IF k <= Len(s) /\ s[k] = "]" THEN Parsed(k + 1, <<"[", "]">>)
                 ELSE LET m == ParseElements(s, k)
                      IN  IF m.ok /\ m.next <= Len(s) /\ s[m.next] = "]"
                          THEN Parsed(m.next + 1, <<"[">> \o m.val \o <<"]">>)
                          ELSE ParseFail
        ELSE ParseFail

\* "key": value, ... ; next is the position of what follows the last value
ParseMembers(s, i) ==
    LET key == ParseString(s, SkipSpace(s, i))
        c == SkipSpace(s, key.next)
        v == ParseValue(s, c + 1)
        e == SkipSpace(s, v.next)
    IN  IF ~key.ok \/ c > Len(s) THEN ParseFail
        ELSE IF s[c] # ":" \/ ~v.ok THEN ParseFail
        ELSE IF e <= Len(s) /\ s[e] = ","
        THEN LET more == ParseMembers(s, e + 1)
             IN  IF more.ok
                 THEN Parsed(more.next, key.val \o <<":">> \o v.val \o <<",">> \o more.val)
                 ELSE ParseFail
        ELSE Parsed(e, key.val \o <<":">> \o v.val)

ParseElements(s, i) ==
    LET v == ParseValue(s, i)
        e == SkipSpace(s, v.next)
    IN  IF ~v.ok THEN ParseFail
        ELSE IF e <= Len(s) /\ s[e] = ","
        THEN LET more == ParseElements(s, e + 1)
             IN  IF more.ok THEN Parsed(more.next, v.val \o <<",">> \o more.val)
                 ELSE ParseFail
        ELSE Parsed(e, v.val)

\* JSON.parse(data): the value, or a SyntaxError (ok = FALSE)
JSONParse(data) ==
    LET v == ParseValue(data, 1)
    IN  IF v.ok /\ SkipSpace(data, v.next) > Len(data)
        THEN [ok |-> TRUE, val |-> v.val]
        ELSE [ok |-> FALSE, val |-> <<>>]

-----------------------------------------------------------------------------
(* The streaming decoder: completion[Symbol.asyncIterator]                   *)

DataPrefix == <<"d", "a", "t", "a", ":", " ">>
DoneMark == <<"[", "D", "O", "N", "E", "]">>

\* the bytes of the two-byte character
LeadByte == "C3"
ContByte == "A9"

\* TextDecoder.decode(value, {stream: true}): held holds the lead byte of an
\* unfinished character; a byte that cannot continue or start a character
\* decodes to U+FFFD
RECURSIVE Decode(_, _, _)
Decode(held, bytes, out) ==
    IF bytes = <<>> THEN [text |-> out, held |-> held]
    ELSE LET b == Head(bytes)
         IN  IF held # <<>>
             THEN IF b = ContByte
                  THEN Decode(<<>>, Tail(bytes), Append(out, EAcute))
                  ELSE Decode(<<>>, bytes, Append(out, Replacement))
             ELSE IF b = LeadByte THEN Decode(<<b>>, Tail(bytes), out)
             ELSE IF b = ContByte THEN Decode(<<>>, Tail(bytes), Append(out, Replacement))
             ELSE Decode(<<>>, Tail(bytes), Append(out, b))

\* s.split('\n'): one more segment than newlines
RECURSIVE SplitFrom(_, _, _)
SplitFrom(s, i, cur) ==
    IF i > Len(s) THEN <<cur>>
    ELSE IF s[i] = Newline THEN <<cur>> \o SplitFrom(s, i + 1, <<>>)
    ELSE SplitFrom(s, i + 1, Append(cur, s[i]))

Split(s) == SplitFrom(s, 1, <<>>)

\* a decoder that forgets the fragment after the last newline
HoldBackNothing(segments) == <<>>

\* lines.pop() || '': the fragment after the last newline stays in the buffer
HoldBack(segments) == segments[Len(segments)]

CompleteLines(segments) == SubSeq(segments, 1, Len(segments) - 1)

\* a decoder that parses every line, with or without the prefix
LineEventAnyLine(line) ==
    LET t == Trim(line)
        data == IF StartsWith(t, DataPrefix) THEN Trim(Slice(t, 6)) ELSE t
    IN  IF data # DoneMark /\ JSONParse(data).ok THEN <<JSONParse(data).val>> ELSE <<>>

\* the body of the for loop for one line: the event it yields, if any
LineEvent(line) ==
    IF Trim(line) # <<>> /\ StartsWith(line, DataPrefix)
    THEN LET data == Trim(Slice(line, 6))
         IN  IF data = DoneMark THEN <<>>
             ELSE IF JSONParse(data).ok THEN <<JSONParse(data).val>>
             ELSE <<>>
    ELSE <<>>

\* a for loop that a line without an event ends (break for continue)
AdvanceBreaks(ls) ==
    IF ls = <<>> \/ LineEvent(Head(ls)) = <<>> THEN [event |-> <<>>, rest |-> <<>>]
    ELSE [event |-> LineEvent(Head(ls)), rest |-> Tail(ls)]

\* the for loop from its current line to its next yield, or to its end
RECURSIVE Advance(_)
Advance(ls) ==
    IF ls = <<>> THEN [event |-> <<>>, rest |-> <<>>]
    ELSE IF LineEvent(Head(ls)) # <<>>
    THEN [event |-> LineEvent(Head(ls)), rest |-> Tail(ls)]
    ELSE Advance(Tail(ls))

\* ---- what the backend sends
Data(payload) == DataPrefix \o payload
ObjA1 == <<"{", Quote, "a", Quote, ":", "1", "}">>

SentLines ==
    {Data(<<"1">>),                          \* data: 1
     Data(ObjA1),                            \* data: {"a":1}
     Data(DoneMark),                         \* data: [DONE]
     Data(<<"{", Quote, "a", Quote, ":">>),  \* data: {"a":      (cut short)
     <<"2">>,                                \* 2                (no prefix)
     <<" ">> \o Data(<<"1">>),               \* (space)data: 1
     <<>>,                                   \* an empty line
     Data(<<Quote, EAcute, Quote, "\r">>)}   \* data: "e-acute" and a carriage return

\* UTF-8: the two-byte character takes two bytes, every other one its own
RECURSIVE Encode(_)
Encode(text) ==
    IF text = <<>> THEN <<>>
    ELSE (IF Head(text) = EAcute THEN <<LeadByte, ContByte>> ELSE <<Head(text)>>)
            \o Encode(Tail(text))

\* the lines, a newline after each but, when open, the last
RECURSIVE Body(_, _)
Body(ls, open) ==
    IF ls = <<>> THEN <<>>
    ELSE Head(ls) \o (IF Len(ls) = 1 /\ open THEN <<>> ELSE <<Newline>>)
            \o Body(Tail(ls), open)

DecInit ==
    /\ TrIdle
    /\ ReqIdle
    /\ ValIdle
    /\ CacheNew
    /\ sent \in UNION {[1..k -> SentLines] : k \in 0..MaxLines}
    /\ \E open \in BOOLEAN : source = Encode(Body(sent, open))
    /\ pos = 0
    /\ reader = "none"
    /\ pending = <<>>
    /\ buffer = <<>>
    /\ lines = <<>>
    /\ atEnd = FALSE
    /\ yielded = <<>>
    /\ dpc = "start"
    /\ cut = FALSE

\* the generator runs from ls to its next suspension: a yield, the next
\* reader.read(), or (in the done branch) the break and the finally block
RunLoop(ls, end) ==
    LET a == Advance(ls)
    IN  /\ lines' = a.rest
        /\ yielded' = yielded \o a.event
        /\ atEnd' = end
        /\ IF a.event # <<>>
           THEN dpc' = "yield" /\ reader' = reader
           ELSE IF end
           THEN dpc' = "done" /\ reader' = "released"
           ELSE dpc' = "read" /\ reader' = reader

\* first next(): response.body.getReader(), then the first reader.read()
DecStart ==
    /\ dpc = "start"
    /\ reader' = "locked"
    /\ dpc' = "read"
    /\ UNCHANGED <<sent, source, pos, pending, buffer, lines, atEnd, yielded, cut,
                   notDec>>

\* first next() of a response without a body: throws before the try block
DecNoBody ==
    /\ dpc = "start"
    /\ source = <<>>
    /\ dpc' = "no reader"
    /\ UNCHANGED <<sent, source, pos, reader, pending, buffer, lines, atEnd, yielded,
                   cut, notDec>>

\* reader.read() returns the next n bytes
DecRead ==
    /\ dpc = "read"
    /\ \E n \in 1..(Len(source) - pos) :
          LET d == Decode(pending, SubSeq(source, pos + 1, pos + n), <<>>)
              segments == Split(buffer \o d.text)
          IN  /\ pos' = pos + n
              /\ pending' = d.held
              /\ buffer' = HoldBack(segments)
              /\ cut' = (cut \/ (pos + n < Len(source)
                                    /\ source[pos + n] # Newline))
              /\ RunLoop(CompleteLines(segments), FALSE)
    /\ UNCHANGED <<sent, source, notDec>>

\* reader.read() returns done
DecReadDone ==
    /\ dpc = "read"
    /\ pos = Len(source)
    /\ RunLoop(IF Trim(buffer) # <<>> THEN Split(buffer) ELSE <<>>, TRUE)
    /\ UNCHANGED <<sent, source, pos, pending, buffer, cut, notDec>>

\* reader.read() rejects: the finally block runs, the error goes to the consumer
DecReadFails ==
    /\ dpc = "read"
    /\ reader' = "released"
    /\ dpc' = "read error"
    /\ UNCHANGED <<sent, source, pos, pending, buffer, lines, atEnd, yielded, cut,
                   notDec>>

\* the consumer asks for the next event
DecResume ==
    /\ dpc = "yield"
    /\ RunLoop(lines, atEnd)
    /\ UNCHANGED <<sent, source, pos, pending, buffer, cut, notDec>>

\* a generator without the finally block
DecReturnKeepsLock ==
    /\ dpc = "yield"
    /\ dpc' = "returned"
    /\ UNCHANGED <<sent, source, pos, reader, pending, buffer, lines, atEnd, yielded,
                   cut, notDec>>

\* the consumer leaves its loop: return() runs the finally block
DecReturn ==
    /\ dpc = "yield"
    /\ reader' = "released"
    /\ dpc' = "returned"
    /\ UNCHANGED <<sent, source, pos, pending, buffer, lines, atEnd, yielded, cut,
                   notDec>>

DecNext ==
    \/ DecStart
    \/ DecNoBody
    \/ DecReadFails
    \/ DecReturn
    \/ DecRead
    \/ DecReadDone
    \/ DecResume

DecSpec == DecInit /\ [][DecNext]_vars

\* reads return, and a consumer at a yield asks for more or leaves
DecFairSpec == DecSpec /\ WF_vars(DecNext)

-----------------------------------------------------------------------------
(* Claims about the streaming decoder (DecSpec, DecFairSpec) *)

\* every event of a list of lines, in order
RECURSIVE AllEvents(_)
AllEvents(ls) ==
    IF Advance(ls).event = <<>> THEN <<>>
    ELSE Advance(ls).event \o AllEvents(Advance(ls).rest)

\* what the generator yields when one read returns the whole body
OneRead(bytes) ==
    LET segments == Split(Decode(<<>>, bytes, <<>>).text)
        rest == HoldBack(segments)
    IN  AllEvents(CompleteLines(segments))
            \o (IF Trim(rest) # <<>> THEN AllEvents(Split(rest)) ELSE <<>>)

\* C7: the events yielded do not depend on how the body is cut into reads:
\* a finished run has yielded what a single read of the whole body yields, and
\* the one line data: {"a":1}, however it is cut, yields the one event {"a":1}.
C7_ChunkingIndependent ==
    dpc = "done" =>
        /\ yielded = OneRead(source)
        /\ sent = <<Data(ObjA1)>> => yielded = <<ObjA1>>

\* C7 witness: the line data: {"a":1} arrived cut inside the line and the run
\* finished.
C7_Witness == dpc = "done" /\ cut /\ sent = <<Data(ObjA1)>>

IsPrefix(s, t) == Len(s) <= Len(t) /\ SubSeq(t, 1, Len(s)) = s

\* the payload of a line that begins with the prefix
PayloadOf(line) == Trim(SubSeq(line, Len(DataPrefix) + 1, Len(line)))

IsGoodLine(line) ==
    /\ StartsWith(line, DataPrefix)
    /\ PayloadOf(line) # DoneMark
    /\ JSONParse(PayloadOf(line)).ok

IsSkippedDataLine(line) ==
    /\ StartsWith(line, DataPrefix)
    /\ (PayloadOf(line) = DoneMark \/ ~JSONParse(PayloadOf(line)).ok)

\* the events of the lines that begin with the prefix, in the order sent
RECURSIVE PrefixedEvents(_)
PrefixedEvents(ls) ==
    IF ls = <<>> THEN <<>>
    ELSE (IF IsGoodLine(Head(ls)) THEN <<JSONParse(PayloadOf(Head(ls))).val>> ELSE <<>>)
            \o PrefixedEvents(Tail(ls))

\* the text of a line after trimming and stripping the prefix when present
StrippedText(line) ==
    IF StartsWith(Trim(line), DataPrefix)
    THEN Trim(SubSeq(Trim(line), Len(DataPrefix) + 1, Len(Trim(line))))
    ELSE Trim(line)

\* the events of every line whose stripped text parses, in the order sent
RECURSIVE ParsableEvents(_)
ParsableEvents(ls) ==
    IF ls = <<>> THEN <<>>
    ELSE (IF StrippedText(Head(ls)) # DoneMark /\ JSONParse(StrippedText(Head(ls))).ok
          THEN <<JSONParse(StrippedText(Head(ls))).val>> ELSE <<>>)
            \o ParsableEvents(Tail(ls))

\* C8 as stated: every line whose text, trimmed and with the prefix stripped
\* when present, is not [DONE] and parses yields one event, in arrival order.
C8_EveryParsableLineYields ==
    /\ IsPrefix(yielded, ParsableEvents(sent))
    /\ dpc = "done" => yielded = ParsableEvents(sent)

\* C8 amended: every line that begins with the prefix and whose payload is
\* not [DONE] and parses yields one event, in arrival order; no other line
\* yields anything.
C8_EveryDataLineYields ==
    /\ IsPrefix(yielded, PrefixedEvents(sent))
    /\ dpc = "done" => yielded = PrefixedEvents(sent)

\* C8 witness: two data lines with different payloads were yielded in order,
\* in a finished run.
C8_Witness ==
    /\ dpc = "done"
    /\ sent = <<Data(ObjA1), Data(<<"1">>)>>
    /\ yielded = <<ObjA1, <<"1">>>>

Terminated == dpc \in {"done", "read error", "returned", "no reader"}

\* C9: the reader is locked exactly while the generator runs after acquiring
\* it: every way out (end of the source, a failed read, the consumer leaving)
\* releases it, and every run ends.
C9_ReaderReleased ==
    /\ [](Terminated => reader # "locked")
    /\ [](reader = "released" => Terminated)
    /\ <>Terminated

\* C9 witness: the consumer left after receiving an event and the reader is
\* released.
C9_Witness == dpc = "returned" /\ Len(yielded) > 0 /\ reader = "released"

\* C10: a data line that fails to parse, or holds [DONE], yields nothing and
\* ends nothing: a finished run has yielded one event per good line, those
\* after a skipped line included.
C10_MalformedSkipped ==
    dpc = "done" =>
        /\ Len(yielded) = Cardinality({i \in 1..Len(sent) : IsGoodLine(sent[i])})
        /\ \A i \in 1..Len(sent) :
              (IsGoodLine(sent[i]) /\ \E j \in 1..(i - 1) : IsSkippedDataLine(sent[j]))
                  => \E k \in 1..Len(yielded) :
                        yielded[k] = JSONParse(PayloadOf(sent[i])).val
        /\ (\A i \in 1..Len(sent) : sent[i] = Data(DoneMark)) => yielded = <<>>

\* C10 witness: a good line sent after a malformed line was yielded.
C10_Witness ==
    /\ dpc = "done"
    /\ sent = <<Data(<<"{", Quote, "a", Quote, ":">>), Data(<<"1">>)>>
    /\ yielded = <<<<"1">>>>

====
